---------------------------- MODULE Spec2Model ----------------------------
(***************************************************************************)
(* Model of the wallet transaction tracker: the Etherscan client with its  *)
(* retry loop (internal/etherscan/client.go), the record processor         *)
(* (internal/processor/processor.go) and the TrackWallet pipeline          *)
(* (internal/tracker/tracker.go).                                          *)
(*                                                                         *)
(* Go strings are modelled as tuples of one-character strings, so that     *)
(* parsing and key formatting are computed and not assumed.                *)
(***************************************************************************)
EXTENDS Integers, Sequences, FiniteSets, TLC

(***************************************************************************)
(* Program constants                                                       *)
(***************************************************************************)
MaxRetries == 3
RetryDelay == 5
DefaultPageSize == 10000
MaxPages == 100
BatchDelay == 2
PageDelay == 3
AddressLen == 42

(***************************************************************************)
(* Bounds of the model                                                     *)
(***************************************************************************)
\* raw records spelled out in one page returned by the service
MaxRecs == 2
\* well-formed records the service hands out during one run
MaxTotal == 2
\* the service returns exactly-full pages only up to this page number
MaxFullPages == 1
\* length of the lists given to the processor's list operations
MaxLen == 3
\* largest instant (seconds) in the lists given to the list operations
MaxTime == 3
\* the amounts given to the normalizers go up to 16 * 10^MaxPow + 1
MaxPow == 30

(***************************************************************************)
(* models.TransactionType                                                  *)
(***************************************************************************)
ETHTransfer == "ETH Transfer"
ERC20Transfer == "ERC-20 Transfer"
ERC721Transfer == "ERC-721 Transfer"
ContractCall == "Contract Interaction"
InternalTx == "Internal Transfer"

\* the four categories, in the order TrackWallet fetches them
Normal == 1
Internal == 2
Token == 3
NFT == 4
Categories == {Normal, Internal, Token, NFT}

(***************************************************************************)
(* Strings and number parsing                                              *)
(***************************************************************************)
Digits == <<"0", "1", "2", "3", "4", "5", "6", "7", "8", "9">>

IsDigit(c) == \E i \in 1..10 : Digits[i] = c

DigitVal(c) == (CHOOSE i \in 1..10 : Digits[i] = c) - 1

RECURSIVE DigitsVal(_)
DigitsVal(s) ==
    IF s = <<>> THEN 0
    ELSE 10 * DigitsVal(SubSeq(s, 1, Len(s) - 1)) + DigitVal(s[Len(s)])

\* sign and digits of a base-10 literal: what strconv.ParseInt and
\* big.Int.SetString accept in base 10
ScanDecimal(s) ==
    LET signed == s # <<>> /\ s[1] \in {"+", "-"}
        body == IF signed THEN Tail(s) ELSE s
    IN  [ok |-> body # <<>> /\ \A i \in 1..Len(body) : IsDigit(body[i]),
         neg |-> signed /\ s[1] = "-",
         body |-> body]

\* the digits of 2^63 - 1, the largest int64
MaxInt64Digits ==
    <<"9", "2", "2", "3", "3", "7", "2", "0", "3", "6", "8", "5", "4", "7", "7",
      "5", "8", "0", "7">>

\* the digits of 2^63, the magnitude of the smallest int64
MinInt64Digits ==
    <<"9", "2", "2", "3", "3", "7", "2", "0", "3", "6", "8", "5", "4", "7", "7",
      "5", "8", "0", "8">>

RECURSIVE StripZeros(_)
StripZeros(s) ==
    IF s # <<>> /\ s[1] = "0" THEN StripZeros(Tail(s)) ELSE s

\* a <= b for two digit strings of the same length
RECURSIVE LeqDigits(_, _)
LeqDigits(a, b) ==
    IF a = <<>> THEN TRUE
    ELSE IF DigitVal(a[1]) < DigitVal(b[1]) THEN TRUE
    ELSE IF DigitVal(a[1]) > DigitVal(b[1]) THEN FALSE
    ELSE LeqDigits(Tail(a), Tail(b))

\* whether a literal accepted by ScanDecimal fits 64 signed bits
FitsInt64(s) ==
    LET neg == s[1] = "-"
        body == StripZeros(IF s[1] \in {"+", "-"} THEN Tail(s) ELSE s)
        limit == IF neg THEN MinInt64Digits ELSE MaxInt64Digits
    IN  \/ Len(body) < Len(limit)
        \/ Len(body) = Len(limit) /\ LeqDigits(body, limit)

\* strconv.ParseInt(s, 10, 64); the values parsed in the model fit a
\* machine integer of the model checker
ParseInt(s) ==
    LET lit == ScanDecimal(s)
        ok == lit.ok /\ FitsInt64(s)
    IN  [ok |-> ok,
         val |-> IF ~ok THEN 0
                 ELSE IF lit.neg THEN 0 - DigitsVal(lit.body)
                 ELSE DigitsVal(lit.body)]

\* strconv.Atoi(s): ParseInt(s, 10, 0) on a 64-bit platform
Atoi(s) == ParseInt(s)

(***************************************************************************)
(* math/big: natural numbers are sequences of decimal digits, most         *)
(* significant first and without leading zeros (the empty sequence is 0),  *)
(* so that amounts are not limited by the width of a machine integer.      *)
(***************************************************************************)
\* bits handled by one pass of a shift
WordBits == 27

\* the digits of a machine integer n >= 0
RECURSIVE NatOf(_)
NatOf(n) == IF n = 0 THEN <<>> ELSE Append(NatOf(n \div 10), n % 10)

\* the machine integer a short natural number stands for
RECURSIVE NatVal(_)
NatVal(x) ==
    IF x = <<>> THEN 0 ELSE 10 * NatVal(SubSeq(x, 1, Len(x) - 1)) + x[Len(x)]

\* nat.norm: leading zeros removed
RECURSIVE Norm(_)
Norm(x) == IF x # <<>> /\ x[1] = 0 THEN Norm(Tail(x)) ELSE x

\* the natural number a string of decimal digits denotes
NatFromDigits(s) == Norm([i \in 1..Len(s) |-> DigitVal(s[i])])

\* the decimal digits of a natural number, "0" for zero
NatString(x) ==
    IF x = <<>> THEN <<"0">> ELSE [i \in 1..Len(x) |-> Digits[x[i] + 1]]

Zeros(n) == [i \in 1..n |-> 0]

\* 10^n
Pow10(n) == <<1>> \o Zeros(n)

IsOdd(x) == x # <<>> /\ x[Len(x)] % 2 = 1

\* x*n + c for machine integers 0 <= n, c <= 2^WordBits, on the digits
\* lo..hi of x: the digits of the result and the carry out of them. The
\* range is halved, the carry of the low half going into the high half.
RECURSIVE MulAddRange(_, _, _, _, _)
RECURSIVE MulAddHigh(_, _, _, _, _)
MulAddJoin(high, low) ==
    [low EXCEPT !.carry = high.carry, !.digits = high.digits \o @]

MulAddHigh(x, n, lo, mid, low) ==
    MulAddJoin(MulAddRange(x, n, low.carry, lo, mid), low)

MulAddRange(x, n, c, lo, hi) ==
    IF lo = hi
    THEN [carry |-> (x[lo] * n + c) \div 10,
          digits |-> <<(x[lo] * n + c) % 10>>]
    ELSE MulAddHigh(x, n, lo, (lo + hi) \div 2,
                    MulAddRange(x, n, c, (lo + hi) \div 2 + 1, hi))

MulAddWW(x, n, c) ==
    IF x = <<>> THEN NatOf(c)
    ELSE LET z == MulAddRange(x, n, c, 1, Len(x))
         IN  Norm(NatOf(z.carry) \o z.digits)

\* quotient and remainder of x by a machine integer 0 < n <= 2^WordBits,
\* on the digits lo..hi of x with the remainder r carried in: the range is
\* halved, the remainder of the high half going into the low half
RECURSIVE DivRange(_, _, _, _, _)
RECURSIVE DivLow(_, _, _, _, _)
DivJoin(high, low) == [q |-> high.q \o low.q, r |-> low.r]

DivLow(x, n, mid, hi, high) ==
    DivJoin(high, DivRange(x, n, high.r, mid + 1, hi))

DivRange(x, n, r, lo, hi) ==
    IF lo = hi
    THEN [q |-> <<(r * 10 + x[lo]) \div n>>, r |-> (r * 10 + x[lo]) % n]
    ELSE DivLow(x, n, (lo + hi) \div 2, hi,
                DivRange(x, n, r, lo, (lo + hi) \div 2))

DivW(x, n) ==
    IF x = <<>> THEN [q |-> <<>>, r |-> 0]
    ELSE LET z == DivRange(x, n, 0, 1, Len(x))
         IN  [q |-> Norm(z.q), r |-> z.r]

\* x * 2^s
RECURSIVE Shl(_, _)
Shl(x, s) ==
    IF s = 0 THEN x
    ELSE IF s > WordBits
    THEN Shl(MulAddWW(x, 2^WordBits, 0), s - WordBits)
    ELSE MulAddWW(x, 2^s, 0)

\* floor(x / 2^s), and whether a non-zero bit was shifted out (or sticky)
RECURSIVE Shr(_, _, _)
Shr(x, s, sticky) ==
    IF s = 0 THEN [q |-> x, sticky |-> sticky]
    ELSE IF s > WordBits
    THEN Shr(DivW(x, 2^WordBits).q, s - WordBits,
             sticky \/ DivW(x, 2^WordBits).r # 0)
    ELSE [q |-> DivW(x, 2^s).q, sticky |-> sticky \/ DivW(x, 2^s).r # 0]

\* bits.Len of a machine integer
RECURSIVE BitLenW(_)
BitLenW(n) == IF n = 0 THEN 0 ELSE 1 + BitLenW(n \div 2)

\* nat.bitLen
RECURSIVE BitLen(_)
BitLen(x) ==
    IF Len(x) <= 8 THEN BitLenW(NatVal(x))
    ELSE WordBits + BitLen(DivW(x, 2^WordBits).q)

\* x / 2^s (s >= 1) rounded to the nearest integer, ties to even; sticky
\* tells that x itself was truncated
RoundShr(x, s, sticky) ==
    LET r == Shr(x, s - 1, sticky)
        h == DivW(r.q, 2)
    IN  IF h.r = 1 /\ (r.sticky \/ IsOdd(h.q)) THEN MulAddWW(h.q, 1, 1)
        ELSE h.q

\* the column sum of the schoolbook product: the sum of x[i] * y[j] over
\* i + j = k + 1, from i on
RECURSIVE ColumnSum(_, _, _, _)
ColumnSum(x, y, k, i) ==
    IF i > Len(x) THEN 0
    ELSE (IF k + 1 - i \in 1..Len(y) THEN x[i] * y[k + 1 - i] ELSE 0)
         + ColumnSum(x, y, k, i + 1)

\* nat.mul: x * y, the column sums with their carries propagated
NatMul(x, y) ==
    IF x = <<>> \/ y = <<>> THEN <<>>
    ELSE MulAddWW([k \in 1..(Len(x) + Len(y) - 1) |-> ColumnSum(x, y, k, 1)],
                  1, 0)

\* a *big.Int
BigInt(neg, abs) == [neg |-> neg /\ abs # <<>>, abs |-> abs]

\* big.NewInt(n) for n >= 0
NewInt(n) == BigInt(FALSE, NatOf(n))

\* new(big.Int).Mul(x, y)
Mul(x, y) == BigInt(x.neg # y.neg, NatMul(x.abs, y.abs))

\* big.Int.String
IntString(x) == (IF x.neg THEN <<"-">> ELSE <<>>) \o NatString(x.abs)

\* a *big.Float with the value mant * 2^exp, rounded to prec bits
Float(neg, mant, exp, prec) ==
    [neg |-> neg, mant |-> mant, exp |-> exp, prec |-> prec]

\* new(big.Float).SetInt(x): the precision becomes max(x.BitLen(), 64)
SetInt(x) ==
    Float(x.neg, x.abs, 0,
          IF BitLen(x.abs) > 64 THEN BitLen(x.abs) ELSE 64)

\* new(big.Float).SetFloat64(x) for an x that is a natural number below 2^53
SetFloat64(x) == Float(FALSE, x, 0, 53)

\* x.Quo(x, y) for integers x # 0 and y a power of ten: the quotient is
\* computed with one or two bits more than x.prec and a sticky bit, and
\* rounded to x.prec bits, ties to even
Quo(x, y) ==
    LET d == Len(y.mant) - 1
        s == x.prec + 1 - (BitLen(x.mant) - BitLen(y.mant))
        n == Shl(x.mant, s)
        t == SubSeq(n, 1, Len(n) - d)
        inexact == \E i \in (Len(n) - d + 1)..Len(n) : n[i] # 0
        g == BitLen(t) - x.prec
    IN  Float(x.neg # y.neg, RoundShr(t, g, inexact), g - s, x.prec)

\* x.Text('f', n) for x with a negative exponent. n >= 0: the value rounded
\* to n decimals, ties to even. n < 0: the shortest decimal that reads back
\* to x at x.prec bits, which for an integer value is the integer itself
\* (the only case reached: x is then a quotient by 1)
Text(x, n) ==
    LET k == IF n >= 0 THEN RoundShr(x.mant \o Zeros(n), 0 - x.exp, FALSE)
             ELSE Shr(x.mant, 0 - x.exp, FALSE).q
        m == IF n > 0 THEN n ELSE 0
        padded == Zeros(m + 1 - Len(k)) \o k
    IN  (IF x.neg THEN <<"-">> ELSE <<>>)
        \o NatString(Norm(SubSeq(padded, 1, Len(padded) - m)))
        \o (IF m > 0
            THEN <<".">> \o [i \in 1..m |->
                                Digits[padded[Len(padded) - m + i] + 1]]
            ELSE <<>>)

\* WeiPerEth = 1e18
WeiPerEth == Pow10(18)

\* big.Int.Exp(10, y, nil): 1 when y <= 0
Exp10(y) == BigInt(FALSE, IF y <= 0 THEN <<1>> ELSE Pow10(y))

formatEthValue(weiValue) ==
    IF weiValue.abs = <<>> THEN <<"0">>
    ELSE Text(Quo(SetInt(weiValue), SetFloat64(WeiPerEth)), 18)

formatTokenValue(value, decimals) ==
    IF value.abs = <<>> THEN <<"0">>
    ELSE IF decimals = 0 THEN IntString(value)
    ELSE Text(Quo(SetInt(value), SetInt(Exp10(decimals))), decimals)

\* new(big.Int).SetString(s, 10)
SetString(s) ==
    LET lit == ScanDecimal(s)
    IN  [ok |-> lit.ok,
         val |-> IF lit.ok THEN BigInt(lit.neg, NatFromDigits(lit.body))
                 ELSE NewInt(0)]

\* the gas fee in ETH, "0" when gasUsed or gasPrice is not an integer
calculateGasFee(gasUsed, gasPrice) ==
    LET gasUsedBig == SetString(gasUsed)
        gasPriceBig == SetString(gasPrice)
    IN  IF ~gasUsedBig.ok \/ ~gasPriceBig.ok THEN <<"0">>
        ELSE formatEthValue(Mul(gasUsedBig.val, gasPriceBig.val))

(***************************************************************************)
(* Wire records (models.Etherscan*Tx) and the unified models.Transaction.  *)
(* Only the fields the processor reads or decides are kept; the other      *)
(* fields are copied through unchanged by the code.                        *)
(***************************************************************************)
RawTx(hash, timeStamp, value, to, input, isError, txReceiptStatus, tokenDecimal, gasUsed, gasPrice) ==
    [hash |-> hash, timeStamp |-> timeStamp, value |-> value, to |-> to,
     input |-> input, isError |-> isError,
     txReceiptStatus |-> txReceiptStatus, tokenDecimal |-> tokenDecimal,
     gasUsed |-> gasUsed, gasPrice |-> gasPrice]

Transaction(hash, dateTime, transactionType, value, valueFormatted, gasFeeETH, status) ==
    [hash |-> hash, dateTime |-> dateTime,
     transactionType |-> transactionType, value |-> value,
     valueFormatted |-> valueFormatted, gasFeeETH |-> gasFeeETH,
     status |-> status]

\* the nil *models.Transaction returned next to an error
NilTx == Transaction(<<>>, 0, "", NewInt(0), <<>>, <<>>, "")

\* time.Unix(timestamp, 0).UTC(): the instant, in seconds
Unix(timestamp) == timestamp

(***************************************************************************)
(* processor.go                                                            *)
(***************************************************************************)
\* variant of getTransactionStatus: the receipt status is looked at first
getTransactionStatusReceiptFirst(isError, txReceiptStatus) ==
    IF txReceiptStatus = <<"1">> THEN "Success"
    ELSE IF isError = <<"1">> THEN "Failed"
    ELSE IF txReceiptStatus = <<"0">> THEN "Failed"
    ELSE "Unknown"

getTransactionStatus(isError, txReceiptStatus) ==
    IF isError = <<"1">> THEN "Failed"
    ELSE IF txReceiptStatus = <<"1">> THEN "Success"
    ELSE IF txReceiptStatus = <<"0">> THEN "Failed"
    ELSE "Unknown"

\* variant of getInternalTransactionStatus: only the error flag "0" counts
\* as a success
getInternalTransactionStatusStrict(isError) ==
    IF isError = <<"1">> THEN "Failed"
    ELSE IF isError = <<"0">> THEN "Success"
    ELSE "Unknown"

getInternalTransactionStatus(isError) ==
    IF isError = <<"1">> THEN "Failed" ELSE "Success"

\* variant of ProcessNormalTransaction: the receiver is not looked at
ProcessNormalTransactionAnyReceiver(tx) ==
    LET timestamp == ParseInt(tx.timeStamp)
        value == SetString(tx.value)
        isCall == tx.input # <<"0", "x">> /\ tx.input # <<>>
    IN  IF ~timestamp.ok THEN [err |-> "timestamp", tx |-> NilTx]
        ELSE IF ~value.ok THEN [err |-> "value", tx |-> NilTx]
        ELSE [err |-> "none",
              tx |-> Transaction(tx.hash, Unix(timestamp.val),
                                 IF isCall THEN ContractCall ELSE ETHTransfer,
                                 value.val, formatEthValue(value.val),
                                 calculateGasFee(tx.gasUsed, tx.gasPrice),
                                 getTransactionStatus(tx.isError,
                                                      tx.txReceiptStatus))]

ProcessNormalTransaction(tx) ==
    LET timestamp == ParseInt(tx.timeStamp)
        value == SetString(tx.value)
        isCall == tx.to # <<>> /\ tx.input # <<"0", "x">> /\ tx.input # <<>>
    IN  IF ~timestamp.ok THEN [err |-> "timestamp", tx |-> NilTx]
        ELSE IF ~value.ok THEN [err |-> "value", tx |-> NilTx]
        ELSE [err |-> "none",
              tx |-> Transaction(tx.hash, Unix(timestamp.val),
                                 IF isCall THEN ContractCall ELSE ETHTransfer,
                                 value.val, formatEthValue(value.val),
                                 calculateGasFee(tx.gasUsed, tx.gasPrice),
                                 getTransactionStatus(tx.isError,
                                                      tx.txReceiptStatus))]

ProcessInternalTransaction(tx) ==
    LET timestamp == ParseInt(tx.timeStamp)
        value == SetString(tx.value)
    IN  IF ~timestamp.ok THEN [err |-> "timestamp", tx |-> NilTx]
        ELSE IF ~value.ok THEN [err |-> "value", tx |-> NilTx]
        ELSE [err |-> "none",
              tx |-> Transaction(tx.hash, Unix(timestamp.val), InternalTx,
                                 value.val, formatEthValue(value.val),
                                 <<"0">>,
                                 getInternalTransactionStatus(tx.isError))]

\* the exponent ProcessTokenTransaction formats with: the declared one, 18
\* when strconv.Atoi rejects it
TokenDecimals(tokenDecimal) ==
    IF Atoi(tokenDecimal).ok THEN Atoi(tokenDecimal).val ELSE 18

ProcessTokenTransaction(tx) ==
    LET timestamp == ParseInt(tx.timeStamp)
        value == SetString(tx.value)
    IN  IF ~timestamp.ok THEN [err |-> "timestamp", tx |-> NilTx]
        ELSE IF ~value.ok THEN [err |-> "value", tx |-> NilTx]
        ELSE [err |-> "none",
              tx |-> Transaction(tx.hash, Unix(timestamp.val), ERC20Transfer,
                                 value.val,
                                 formatTokenValue(
                                     value.val,
                                     TokenDecimals(tx.tokenDecimal)),
                                 calculateGasFee(tx.gasUsed, tx.gasPrice),
                                 "1")]

ProcessNFTTransaction(tx) ==
    LET timestamp == ParseInt(tx.timeStamp)
    IN  IF ~timestamp.ok THEN [err |-> "timestamp", tx |-> NilTx]
        ELSE [err |-> "none",
              tx |-> Transaction(tx.hash, Unix(timestamp.val), ERC721Transfer,
                                 NewInt(1), <<"1">>,
                                 calculateGasFee(tx.gasUsed, tx.gasPrice),
                                 "1")]

\* a.Before(b) on two instants
Before(a, b) == a < b

\* variant of SwapNeeded: swaps equal instants as well
SwapNeededOrEqual(a, b) == ~Before(b.dateTime, a.dateTime)

\* the condition under which the inner loop swaps positions j and j+1
SwapNeeded(a, b) == Before(a.dateTime, b.dateTime)

\* variant of Swap: position j+1 keeps its entry
SwapOverwrite(t, j) == [t EXCEPT ![j] = t[j + 1]]

\* transactions[j], transactions[j+1] = transactions[j+1], transactions[j]
Swap(t, j) == [t EXCEPT ![j] = t[j + 1], ![j + 1] = t[j]]

\* inner loop of SortTransactionsByTime from index j (1-based) to last
RECURSIVE InnerLoop(_, _, _)
InnerLoop(t, j, last) ==
    IF j > last THEN t
    ELSE InnerLoop(IF SwapNeeded(t[j], t[j + 1]) THEN Swap(t, j) ELSE t,
                   j + 1, last)

\* outer loop of SortTransactionsByTime from pass i (0-based)
RECURSIVE OuterLoop(_, _)
OuterLoop(t, i) ==
    IF i >= Len(t) - 1 THEN t
    ELSE OuterLoop(InnerLoop(t, 1, Len(t) - i - 1), i + 1)

\* variant of SortTransactionsByTime: a single pass of the inner loop
SortOnePass(transactions) ==
    InnerLoop(transactions, 1, Len(transactions) - 1)

SortTransactionsByTime(transactions) == OuterLoop(transactions, 0)

\* variant of DedupKey: the hash alone
DedupKeyHashOnly(tx) == tx.hash

\* fmt.Sprintf("%s_%s", tx.Hash, tx.TransactionType); the type name is one
\* symbol, as none of the type names contains an underscore
DedupKey(tx) == tx.hash \o <<"_">> \o <<tx.transactionType>>

RECURSIVE DedupLoop(_, _, _)
DedupLoop(transactions, seen, unique) ==
    IF transactions = <<>> THEN unique
    ELSE LET tx == Head(transactions)
             key == DedupKey(tx)
         IN  IF key \notin seen
             THEN DedupLoop(Tail(transactions), seen \cup {key},
                            Append(unique, tx))
             ELSE DedupLoop(Tail(transactions), seen, unique)

\* variant of DeduplicateTransactions: nothing is removed
DeduplicateNothing(transactions) == transactions

DeduplicateTransactions(transactions) == DedupLoop(transactions, {}, <<>>)

\* the characters with the code points 47 ('/') to 122 ('z'), in order;
\* "U+0060" stands for the grave accent
Ascii ==
    <<"/", "0", "1", "2", "3", "4", "5", "6", "7", "8", "9", ":", ";", "<",
      "=", ">", "?", "@", "A", "B", "C", "D", "E", "F", "G", "H", "I", "J",
      "K", "L", "M", "N", "O", "P", "Q", "R", "S", "T", "U", "V", "W", "X",
      "Y", "Z", "[", "\\", "]", "^", "_", "U+0060",
      "a", "b", "c", "d", "e", "f",
      "g", "h", "i", "j", "k", "l", "m", "n", "o", "p", "q", "r", "s", "t",
      "u", "v", "w", "x", "y", "z">>

\* a character outside ASCII: e with acute accent, two bytes in UTF-8
EAcute == "U+00E9"

\* the code point of a character
Rune(c) ==
    IF c = EAcute THEN 233
    ELSE 46 + CHOOSE i \in 1..Len(Ascii) : Ascii[i] = c

\* the bytes of a character in UTF-8
RuneLen(c) == IF Rune(c) < 128 THEN 1 ELSE 2

\* len(s): the bytes of the string
RECURSIVE ByteLen(_)
ByteLen(s) == IF s = <<>> THEN 0 ELSE RuneLen(Head(s)) + ByteLen(Tail(s))

HasPrefix(s, prefix) ==
    Len(s) >= Len(prefix) /\ SubSeq(s, 1, Len(prefix)) = prefix

\* variant of IsHexRune: the letter ranges end one character late
IsHexRuneUpToG(char) ==
    \/ Rune(char) >= Rune("0") /\ Rune(char) <= Rune("9")
    \/ Rune(char) >= Rune("a") /\ Rune(char) <= Rune("g")
    \/ Rune(char) >= Rune("A") /\ Rune(char) <= Rune("G")

\* the test the loop of ValidateEthereumAddress makes on each character
IsHexRune(char) ==
    \/ Rune(char) >= Rune("0") /\ Rune(char) <= Rune("9")
    \/ Rune(char) >= Rune("a") /\ Rune(char) <= Rune("f")
    \/ Rune(char) >= Rune("A") /\ Rune(char) <= Rune("F")

\* variant of ValidateEthereumAddress: the characters are not looked at
ValidateLengthAndPrefix(address) ==
    IF ByteLen(address) # AddressLen THEN FALSE
    ELSE HasPrefix(address, <<"0", "x">>) \/ HasPrefix(address, <<"0", "X">>)

ValidateEthereumAddress(address) ==
    IF ByteLen(address) # AddressLen THEN FALSE
    ELSE IF ~HasPrefix(address, <<"0", "x">>)
            /\ ~HasPrefix(address, <<"0", "X">>) THEN FALSE
    ELSE \A i \in 3..Len(address) : IsHexRune(address[i])


(***************************************************************************)
(* client.go: errors, envelopes and the four category operations           *)
(***************************************************************************)
Err(kind, attempts, wraps, msg) ==
    [kind |-> kind, attempts |-> attempts, wraps |-> wraps, msg |-> msg]

\* the nil error
NoErr == Err("none", 0, "none", "none")

\* "Etherscan API error: Rate limit exceeded or invalid request. Consider
\* using an API key with -k flag"
RateLimitErr == Err("ratelimit", 0, "none", "use an API key")

\* "Etherscan API error: %s" with the envelope's message
ServiceErr(message) == Err("service", 0, "none", message)

\* "failed to unmarshal transactions: %w"
UnmarshalErr == Err("unmarshal", 0, "none", "none")

\* models.EtherscanResponse; the result payload is either a list of wire
\* records (raws followed by pad further records) or not such a list
Envelope(status, message, decodes, raws, pad) ==
    [status |-> status, message |-> message, decodes |-> decodes,
     raws |-> raws, pad |-> pad]

NoEnvelope == Envelope("", "", FALSE, <<>>, 0)

Reply(err, raws, pad) == [err |-> err, raws |-> raws, pad |-> pad]

GetNormalTransactions(response) ==
    IF response.status # "1"
    THEN IF response.message = "NOTOK" THEN Reply(RateLimitErr, <<>>, 0)
         ELSE Reply(ServiceErr(response.message), <<>>, 0)
    ELSE IF ~response.decodes THEN Reply(UnmarshalErr, <<>>, 0)
    ELSE Reply(NoErr, response.raws, response.pad)

GetInternalTransactions(response) ==
    IF response.status # "1"
    THEN IF response.message = "NOTOK" THEN Reply(RateLimitErr, <<>>, 0)
         ELSE IF response.message = "No transactions found"
              THEN Reply(NoErr, <<>>, 0)
         ELSE Reply(ServiceErr(response.message), <<>>, 0)
    ELSE IF ~response.decodes THEN Reply(UnmarshalErr, <<>>, 0)
    ELSE Reply(NoErr, response.raws, response.pad)

GetTokenTransactions(response) ==
    IF response.status # "1"
    THEN IF response.message = "NOTOK" THEN Reply(RateLimitErr, <<>>, 0)
         ELSE IF response.message = "No transactions found"
              THEN Reply(NoErr, <<>>, 0)
         ELSE Reply(ServiceErr(response.message), <<>>, 0)
    ELSE IF ~response.decodes THEN Reply(UnmarshalErr, <<>>, 0)
    ELSE Reply(NoErr, response.raws, response.pad)

\* variant of GetNFTTransactions: without the branch for "NOTOK"
GetNFTTransactionsNoRateLimit(response) ==
    IF response.status # "1"
    THEN IF response.message = "No transactions found"
         THEN Reply(NoErr, <<>>, 0)
         ELSE Reply(ServiceErr(response.message), <<>>, 0)
    ELSE IF ~response.decodes THEN Reply(UnmarshalErr, <<>>, 0)
    ELSE Reply(NoErr, response.raws, response.pad)

GetNFTTransactions(response) ==
    IF response.status # "1"
    THEN IF response.message = "NOTOK" THEN Reply(RateLimitErr, <<>>, 0)
         ELSE IF response.message = "No transactions found"
              THEN Reply(NoErr, <<>>, 0)
         ELSE Reply(ServiceErr(response.message), <<>>, 0)
    ELSE IF ~response.decodes THEN Reply(UnmarshalErr, <<>>, 0)
    ELSE Reply(NoErr, response.raws, response.pad)

\* the category operation fetchAll<category>Transactions calls
GetTransactions(c, response) ==
    CASE c = Normal -> GetNormalTransactions(response)
      [] c = Internal -> GetInternalTransactions(response)
      [] c = Token -> GetTokenTransactions(response)
      [] c = NFT -> GetNFTTransactions(response)

\* the normalizer fetchAll<category>Transactions calls on each record
ProcessTransaction(c, tx) ==
    CASE c = Normal -> ProcessNormalTransaction(tx)
      [] c = Internal -> ProcessInternalTransaction(tx)
      [] c = Token -> ProcessTokenTransaction(tx)
      [] c = NFT -> ProcessNFTTransaction(tx)

(***************************************************************************)
(* client.go: makeRequest                                                  *)
(***************************************************************************)
\* the outcome of one HTTP GET: "transport" (Get fails), "read" (reading
\* the body fails), "status" (status code not 200), "decode" (the body is
\* not an envelope) or "ok" with the decoded envelope
Outcome(kind, env) == [kind |-> kind, env |-> env]

FailureKinds == {"transport", "read", "status", "decode"}

\* variant of AttemptFailed: an envelope whose status is not "1" counts as
\* a failed attempt too
AttemptFailedOrRejected(o) == o.kind # "ok" \/ o.env.status # "1"

\* the attempt ends in one of the four `continue` branches
AttemptFailed(o) == o.kind # "ok"

\* variant of MoreAttempts: one attempt more
MoreAttemptsInclusive(attempt) == attempt <= MaxRetries

\* loop condition of the retry loop
MoreAttempts(attempt) == attempt < MaxRetries

\* lastErr after a failed attempt
NextLastErr(lastErr, o) == o.kind

\* the error returned once the loop is left
ExhaustedErr(lastErr) == Err("exhausted", MaxRetries, lastErr, "none")


(***************************************************************************)
(* State                                                                   *)
(***************************************************************************)
VARIABLES
    pc,              \* position in TrackWallet: "start", "fetch" (about to
                     \* issue an HTTP GET), "returned" (the category
                     \* operation has returned txs, err), "export" (about to
                     \* call Export), "done"; "lists" when a list operation
                     \* is exercised
    address,         \* the address argument
    cat,             \* category whose fetchAll loop is running
    page,            \* page of the running fetchAll loop
    attempt,         \* attempt of the running makeRequest loop, 0 outside
    lastErr,         \* lastErr of the running makeRequest loop
    txs, err,        \* what the category operation returned; the page is
                     \* txs.raws followed by txs.pad further records
    acc,             \* allTransactions of the running fetchAll loop
    normalTxs, internalTxs, tokenTxs, nftTxs,
    allTransactions, \* TrackWallet's merged list
    ret,             \* what TrackWallet returned, "running" before that
    \* what the remote service and the exporter observe
    request,         \* parameters of the HTTP GETs of the pending call
    sent,            \* HTTP GETs issued so far by the running makeRequest
    lastOutcome,     \* outcome of the last HTTP GET of the pending call
    catErr,          \* categories whose fetchAll returned an error
    fetched,         \* per category, records normalized from returned pages
    asked,           \* categories for which an HTTP GET was issued
    exported,        \* whether Export was called
    exportOk,        \* whether Export returned without error
    handed,          \* the list Export was called with
    slept,           \* time slept since the last HTTP GET
    \* the processor's list operations on their own
    input, output, op

vars ==
    <<pc, address, cat, page, attempt, lastErr, txs, err, acc, normalTxs,
      internalTxs, tokenTxs, nftTxs, allTransactions, ret, request, sent,
      lastOutcome, catErr, fetched, asked, exported, exportOk, handed, slept,
      input, output, op>>

runVars ==
    <<pc, address, cat, page, attempt, lastErr, txs, err, acc, normalTxs,
      internalTxs, tokenTxs, nftTxs, allTransactions, ret, request, sent,
      lastOutcome, catErr, fetched, asked, exported, exportOk, handed,
      slept>>

listVars == <<input, output, op>>

(***************************************************************************)
(* Inputs of the model                                                     *)
(***************************************************************************)
SeqsUpTo(S, n) == UNION {[1..k -> S] : k \in 0..n}

H1 == <<"a">>
H2 == <<"b", "_">>

\* a record no normalizer accepts: its timestamp is not a number
MalformedRaw ==
    RawTx(H1, <<"x">>, <<"5">>, <<>>, <<>>, <<"0">>, <<"1">>, <<"6">>,
          <<"0">>, <<"0">>)

\* the wire records the service answers with during a run; how amounts are
\* formatted is exercised on single records (RecordInputs)
RunRaws ==
    {RawTx(H1, <<"1">>, <<"0">>, <<>>, <<>>, <<"0">>, <<"1">>, <<"6">>,
           <<"0">>, <<"0">>),
     RawTx(H1, <<"2">>, <<"0">>, <<"c">>, <<>>, <<"0">>, <<"1">>, <<"6">>,
           <<"0">>, <<"0">>),
     MalformedRaw}

Hex40(c) == [i \in 1..40 |-> c]

\* the address arguments tried
Addresses ==
    {<<"0", "x">> \o Hex40("a"),
     <<"0", "X">> \o Hex40("A"),
     <<"0", "x">> \o Hex40("g"),
     <<"1", "x">> \o Hex40("a"),
     <<"0", "x">> \o SubSeq(Hex40("a"), 1, 39)}

\* the transactions the list operations are exercised on
ListTxs ==
    {Transaction(h, t, ty, NewInt(5), <<"5">>, <<"0">>, "Success") :
        h \in {H1, H2}, t \in 1..MaxTime, ty \in {ETHTransfer, InternalTx}}

\* the amounts the normalizers are exercised on
Amounts ==
    {<<>>}
    \cup {MulAddWW(NatOf(a) \o Zeros(k), 1, b) :
            a \in {1, 2, 5, 16}, k \in 0..MaxPow, b \in {0, 1}}

\* timestamp fields: integers, the empty string, text, and 2^63
TimeStampFields ==
    {<<"1">>, <<"-", "1">>, <<>>, <<"x">>, <<"1", "x">>,
     MinInt64Digits}

\* value fields that are not the digits of one of the Amounts
ValueFields ==
    {<<"0">>, <<"5">>, <<"0", "5">>, <<"+", "5">>, <<"-", "5">>, <<>>,
     <<"x">>, <<"5", "x">>, <<"-">>}

\* tokenDecimal fields
DecimalFields ==
    {<<"1", "8">>, <<"6">>, <<"0">>, <<"+", "6">>, <<"-", "3">>, <<>>,
     <<"x">>, <<"6", "x">>, MinInt64Digits}

FlagFields == {<<"0">>, <<"1">>, <<>>, <<"2">>}

RecordInput(c, raw) == [cat |-> c, raw |-> raw]

\* call-data fields: none, the empty call data "0x", call data, and two
\* spellings that are not the empty call data
InputFields ==
    {<<>>, <<"0", "x">>, <<"0", "x", "a">>, <<"0", "X">>, <<"0">>}

\* gasUsed and gasPrice fields: integers (a plain transfer's 21000 gas at
\* 20 gwei among them), text, a hexadecimal literal, the empty string
GasFields ==
    {<<"0">>, <<"1">>, <<"2", "1", "0", "0", "0">>,
     NatString(MulAddWW(Pow10(10), 2, 0)),
     <<"-", "1">>, <<>>, <<"x">>, <<"0", "x", "5">>}

\* the pairs of gasUsed and gasPrice tried: every two gas fields, and a
\* field of twenty digits with some of the small ones
GasPairs ==
    LET large == NatString(MulAddWW(NatOf(16) \o Zeros(18), 1, 1))
    IN  (GasFields \X GasFields)
        \cup ({large} \X {<<"1">>, <<"2", "1", "0", "0", "0">>})
        \cup ({<<"1">>, <<"x">>} \X {large})

\* the single records the normalizers are exercised on: every amount at the
\* exponents 18, 6 and 0; every timestamp with every value field; every
\* tokenDecimal field; every pair of status flags; every receiver with
\* every call data; every gasUsed with every gasPrice
RecordInputs ==
    {RecordInput(c, RawTx(H1, <<"1">>, NatString(v), <<>>, <<>>, <<"0">>,
                          <<"1">>, d, <<"0">>, <<"0">>)) :
        c \in {Normal, Internal, Token}, v \in Amounts,
        d \in {<<"1", "8">>, <<"6">>, <<"0">>}}
    \cup {RecordInput(c, RawTx(H1, t, v, <<>>, <<>>, <<"0">>, <<"1">>,
                               <<"6">>, <<"0">>, <<"x">>)) :
            c \in Categories, t \in TimeStampFields, v \in ValueFields}
    \cup {RecordInput(Token, RawTx(H1, <<"1">>, v, <<>>, <<>>, <<"0">>,
                                   <<"1">>, d, <<"0">>, <<"0">>)) :
            v \in {<<"5">>, <<"5", "0", "0", "0", "0", "0">>},
            d \in DecimalFields}
    \cup {RecordInput(c, RawTx(H1, <<"1">>, <<"0">>, <<>>, <<>>, e, r,
                               <<"6">>, <<"0">>, <<"0">>)) :
            c \in Categories, e \in FlagFields, r \in FlagFields}
    \cup {RecordInput(c, RawTx(H1, <<"1">>, <<"0">>, to, data, <<"0">>,
                               <<"1">>, <<"6">>, <<"0">>, <<"0">>)) :
            c \in Categories, to \in {<<>>, <<"c">>}, data \in InputFields}
    \cup {RecordInput(c, RawTx(H1, <<"1">>, <<"0">>, <<>>, <<>>, e,
                               <<"1">>, <<"6">>, ug[1], ug[2])) :
            c \in Categories, e \in {<<"0">>, <<"1">>}, ug \in GasPairs}

\* the characters tried at each position of an address
ProbeChars ==
    {"0", "9", "a", "f", "A", "F", "/", ":", "@", "G", "U+0060", "g", "x",
     "X", "z", EAcute}

\* the two-character beginnings tried
Prefixes ==
    {<<"0", "x">>, <<"0", "X">>, <<"1", "x">>, <<"0", "y">>, <<"x", "0">>,
     <<"0", "0">>, <<EAcute, "x">>}

ReplaceAt(s, i, c) == [s EXCEPT ![i] = c]

\* the strings ValidateEthereumAddress is exercised on: 42 characters with
\* any beginning and any probe character at any place after it, and strings
\* of 0 to 44 characters, with and without a two-byte character
AddressInputs ==
    {p \o ReplaceAt(Hex40("a"), i, c) :
        p \in Prefixes, i \in 1..40, c \in ProbeChars}
    \cup {SubSeq(p \o Hex40("B") \o <<"1", "2">>, 1, n) :
            p \in Prefixes, n \in 0..44}
    \cup {SubSeq(p \o ReplaceAt(Hex40("0"), i, EAcute) \o <<"1">>, 1, n) :
            p \in Prefixes, i \in 1..40, n \in 40..43}

(***************************************************************************)
(* tracker.go                                                              *)
(***************************************************************************)
\* variant of NormalizeRaws: the loop is left at the first record that fails
\* to normalize
RECURSIVE NormalizeRawsUntilError(_, _)
NormalizeRawsUntilError(c, raws) ==
    IF raws = <<>> THEN <<>>
    ELSE IF ProcessTransaction(c, Head(raws)).err # "none" THEN <<>>
    ELSE <<ProcessTransaction(c, Head(raws)).tx>>
         \o NormalizeRawsUntilError(c, Tail(raws))

\* one pass of the body of the loop over a page, n times on records with
\* the same result r: a record that fails to normalize is skipped
AppendNormalized(r, n) ==
    IF r.err = "none" THEN [i \in 1..n |-> r.tx] ELSE <<>>

\* the loop over one page: records that fail to normalize are skipped
RECURSIVE NormalizeRaws(_, _)
NormalizeRaws(c, raws) ==
    IF raws = <<>> THEN <<>>
    ELSE AppendNormalized(ProcessTransaction(c, Head(raws)), 1)
         \o NormalizeRaws(c, Tail(raws))

\* the page is p.raws followed by p.pad copies of MalformedRaw
NormalizePage(c, p) ==
    NormalizeRaws(c, p.raws)
    \o AppendNormalized(ProcessTransaction(c, MalformedRaw), p.pad)

\* variant of PageLen: only the records that normalize are counted
PageLenNormalized(p) == Len(NormalizePage(cat, p))

\* len(txs)
PageLen(p) == Len(p.raws) + p.pad

\* variant of LastPage: only the empty page ends the loop
LastPageOnlyEmpty(n) == n = 0

\* the two `break` conditions of a fetchAll loop on a page of n records
LastPage(n) == n = 0 \/ n < DefaultPageSize

\* variant of WithinPages: one page more
WithinPagesOneMore(p) == p <= MaxPages + 1

\* loop condition of a fetchAll loop
WithinPages(p) == p <= MaxPages

\* variant of NextPage: the page number is not advanced
NextPageStuck(p) == p

\* page++
NextPage(p) == p + 1

\* variant of Fatal: a failed internal fetch is tolerated
FatalNormalOnly(c) == c = Normal

\* variant of Fatal: a failed token fetch ends the run
FatalTokenToo(c) == c \in {Normal, Internal, Token}

\* TrackWallet returns when this category's fetch fails
Fatal(c) == c \in {Normal, Internal}

\* the list TrackWallet keeps for a category whose fetch returned (list, e)
Kept(list, e) == IF e.kind # "none" THEN <<>> ELSE list

\* the pause TrackWallet makes after category c
SleepAfter(c) == IF c \in {Internal, Token} THEN BatchDelay ELSE 0

Control(npc, ncat, npage, nacc, n1, n2, n3, n4, nall, nret, nslept) ==
    [pc |-> npc, cat |-> ncat, page |-> npage, acc |-> nacc,
     normalTxs |-> n1, internalTxs |-> n2, tokenTxs |-> n3, nftTxs |-> n4,
     allTransactions |-> nall, ret |-> nret, slept |-> nslept]

\* variant of NextCategory: the token transactions are fetched before the
\* internal ones
NextCategoryTokenFirst(c) ==
    CASE c = Normal -> Token
      [] c = Token -> Internal
      [] c = Internal -> NFT
      [] OTHER -> c

\* the category TrackWallet fetches after category c
NextCategory(c) == c + 1

\* variant of Combine: the NFT transactions are left out
CombineWithoutNFT(n1, n2, n3, n4) == n1 \o n2 \o n3

\* "Combine all transactions": the four appends to allTransactions
Combine(n1, n2, n3, n4) == n1 \o n2 \o n3 \o n4

FetchFailure(c) ==
    IF c = Normal THEN "failed to fetch normal transactions"
    ELSE "failed to fetch internal transactions"

\* TrackWallet once the four lists stand at n1..n4 after category c, whose
\* fetch returned the error e: up to the next HTTP GET, the call of Export
\* or its own return
Proceed(c, e, sl, n1, n2, n3, n4) ==
    IF e.kind # "none" /\ Fatal(c)
    THEN Control("done", c, page, <<>>, normalTxs, internalTxs, tokenTxs,
                 nftTxs, allTransactions, FetchFailure(c), sl)
    ELSE IF c # NFT
    THEN Control("fetch", NextCategory(c), 1, <<>>, n1, n2, n3, n4,
                 allTransactions, ret, sl + SleepAfter(c))
    ELSE Control("export", c, page, <<>>, n1, n2, n3, n4,
                 SortTransactionsByTime(
                     DeduplicateTransactions(Combine(n1, n2, n3, n4))),
                 ret, sl)

\* TrackWallet from the return (list, e) of fetchAll for category c on
AfterCategory(c, list, e, sl) ==
    Proceed(c, e, sl,
            IF c = Normal THEN Kept(list, e) ELSE normalTxs,
            IF c = Internal THEN Kept(list, e) ELSE internalTxs,
            IF c = Token THEN Kept(list, e) ELSE tokenTxs,
            IF c = NFT THEN Kept(list, e) ELSE nftTxs)

\* a fetchAll loop from the return (p, e) of the category operation on;
\* list is allTransactions of the loop after the records of p that
\* normalize were appended
AfterCall(p, e, list) ==
    IF e.kind # "none" THEN AfterCategory(cat, <<>>, e, 0)
    ELSE IF LastPage(PageLen(p)) THEN AfterCategory(cat, list, NoErr, 0)
    ELSE IF WithinPages(NextPage(page))
    THEN Control("fetch", cat, NextPage(page), list, normalTxs, internalTxs,
                 tokenTxs, nftTxs, allTransactions, ret, PageDelay)
    ELSE AfterCategory(cat, list, NoErr, PageDelay)

ToLower(s) ==
    [i \in 1..Len(s) |->
        CASE s[i] = "A" -> "a" [] s[i] = "B" -> "b" [] s[i] = "C" -> "c"
          [] s[i] = "D" -> "d" [] s[i] = "E" -> "e" [] s[i] = "F" -> "f"
          [] s[i] = "X" -> "x" [] OTHER -> s[i]]

(***************************************************************************)
(* What the remote service may answer to the pending request               *)
(***************************************************************************)
KeptSoFar ==
    Len(normalTxs) + Len(internalTxs) + Len(tokenTxs) + Len(nftTxs) + Len(acc)

PageRaws ==
    {r \in SeqsUpTo(RunRaws, MaxRecs) :
        KeptSoFar + Len(SelectSeq(r, LAMBDA x : x # MalformedRaw))
            <= MaxTotal}

Envelopes ==
    {Envelope("1", "OK", TRUE, r, 0) : r \in PageRaws}
    \cup {Envelope("1", "OK", TRUE, r, DefaultPageSize - Len(r)) :
            r \in {x \in PageRaws : page <= MaxFullPages}}
    \cup {Envelope("1", "OK", FALSE, <<>>, 0)}
    \cup {Envelope("0", m, FALSE, <<>>, 0) :
            m \in {"NOTOK", "No transactions found", "Query Timeout"}}
    \cup {Envelope("0", m, TRUE, r, 0) :
            m \in {"NOTOK", "Query Timeout"},
            r \in {x \in PageRaws : Len(x) = 1}}

Outcomes ==
    {Outcome(k, NoEnvelope) : k \in FailureKinds}
    \cup {Outcome("ok", e) : e \in Envelopes}

\* the records spelled out in a page of the service below: a well-formed
\* one on the first and on the last page a category may ask for
FullPageRaws ==
    {<<>>}
    \cup {<<r>> : r \in {x \in RunRaws : /\ x.timeStamp = <<"1">>
                                        /\ page \in {1, MaxPages}
                                        /\ KeptSoFar < MaxTotal}}

\* a service whose HTTP round trips all succeed and that may answer any
\* page of any category with a full page, so that all MaxPages pages of a
\* category are walked and the records of its first and last page are
\* gathered
FullPageEnvelopes ==
    {Envelope("1", "OK", TRUE, r, DefaultPageSize - Len(r)) :
        r \in FullPageRaws}
    \cup {Envelope("1", "OK", TRUE, <<>>, 1),
          Envelope("0", "NOTOK", FALSE, <<>>, 0)}

FullPageOutcomes == {Outcome("ok", e) : e \in FullPageEnvelopes}

\* a service that may answer any page of any category with a full page:
\* pages without a well-formed record, so that all MaxPages pages of every
\* category can be walked
LiveEnvelopes ==
    {Envelope("1", "OK", TRUE, <<>>, n) : n \in {0, 1, DefaultPageSize}}
    \cup {Envelope("1", "OK", FALSE, <<>>, 0)}
    \cup {Envelope("0", m, FALSE, <<>>, 0) :
            m \in {"NOTOK", "No transactions found", "Query Timeout"}}

LiveOutcomes ==
    {Outcome(k, NoEnvelope) : k \in FailureKinds}
    \cup {Outcome("ok", e) : e \in LiveEnvelopes}

(***************************************************************************)
(* Initial states                                                          *)
(***************************************************************************)
NoPage == [raws |-> <<>>, pad |-> 0]

NoRequest == [cat |-> 0, page |-> 0, offset |-> 0]

\* what is kept of an outcome once the call has consumed it
Seen(o) == [kind |-> o.kind, status |-> o.env.status,
            message |-> o.env.message, decodes |-> o.env.decodes]

NoOutcome == Seen(Outcome("none", NoEnvelope))

RunIdle(p) ==
    /\ pc = p
    /\ cat = Normal
    /\ page = 1
    /\ attempt = 0
    /\ lastErr = "none"
    /\ txs = NoPage
    /\ err = NoErr
    /\ acc = <<>>
    /\ normalTxs = <<>>
    /\ internalTxs = <<>>
    /\ tokenTxs = <<>>
    /\ nftTxs = <<>>
    /\ allTransactions = <<>>
    /\ ret = "running"
    /\ request = NoRequest
    /\ sent = 0
    /\ lastOutcome = NoOutcome
    /\ catErr = [c \in Categories |-> FALSE]
    /\ fetched = [c \in Categories |-> 0]
    /\ asked = {}
    /\ exported = FALSE
    /\ exportOk = FALSE
    /\ handed = <<>>
    /\ slept = 0

\* TrackWallet is entered with some address
Init ==
    /\ RunIdle("start")
    /\ address \in Addresses
    /\ input = <<>>
    /\ output = <<>>
    /\ op = "none"

\* a list operation is about to be applied to some list
InitLists ==
    /\ RunIdle("lists")
    /\ address = <<>>
    /\ input \in SeqsUpTo(ListTxs, MaxLen)
    /\ output = <<>>
    /\ op = "none"

\* a normalizer is about to be applied to some record
InitRecords ==
    /\ RunIdle("records")
    /\ address = <<>>
    /\ input \in RecordInputs
    /\ output = <<>>
    /\ op = "none"

\* ValidateEthereumAddress is about to be applied to some string
InitValidate ==
    /\ RunIdle("validate")
    /\ address = <<>>
    /\ input \in AddressInputs
    /\ output = <<>>
    /\ op = "none"

(***************************************************************************)
(* Actions                                                                 *)
(***************************************************************************)
\* TrackWallet up to the first HTTP GET
Start ==
    /\ pc = "start"
    /\ IF ~ValidateEthereumAddress(address)
       THEN /\ pc' = "done"
            /\ ret' = "invalid Ethereum address"
            /\ address' = address
       ELSE /\ pc' = "fetch"
            /\ ret' = ret
            /\ address' = ToLower(address)
    /\ UNCHANGED <<cat, page, attempt, lastErr, txs, err, acc, normalTxs,
                   internalTxs, tokenTxs, nftTxs, allTransactions, request,
                   sent, lastOutcome, catErr, fetched, asked, exported,
                   exportOk, handed, slept>>
    /\ UNCHANGED listVars

\* one iteration of the loop of makeRequest: an HTTP GET with outcome o;
\* when the loop is left, the category operation returns txs, err
Attempt(o) ==
    LET failedAttempt == AttemptFailed(o)
        newLastErr == IF failedAttempt THEN NextLastErr(lastErr, o) ELSE lastErr
        retry == failedAttempt /\ MoreAttempts(attempt + 1)
        reply == IF failedAttempt
                 THEN Reply(ExhaustedErr(newLastErr), <<>>, 0)
                 ELSE GetTransactions(cat, o.env)
    IN  /\ request' = [cat |-> cat, page |-> page, offset |-> DefaultPageSize]
        /\ lastOutcome' = Seen(o)
        /\ asked' = asked \cup {cat}
        /\ IF retry
           THEN /\ attempt' = attempt + 1
                /\ lastErr' = newLastErr
                /\ sent' = sent + 1
                /\ slept' = RetryDelay
                /\ UNCHANGED <<pc, txs, err>>
           ELSE /\ attempt' = 0
                /\ lastErr' = "none"
                /\ sent' = 0
                /\ slept' = 0
                /\ pc' = "returned"
                /\ txs' = [raws |-> reply.raws, pad |-> reply.pad]
                /\ err' = reply.err
        /\ UNCHANGED <<address, cat, page, acc, normalTxs, internalTxs,
                       tokenTxs, nftTxs, allTransactions, ret, catErr,
                       fetched, exported, exportOk, handed>>
        /\ UNCHANGED listVars

HttpAttempt ==
    /\ pc = "fetch"
    /\ \E o \in Outcomes : Attempt(o)

\* the fetchAll loop and TrackWallet from the return of the category
\* operation up to the next HTTP GET, the call of Export or the return of
\* TrackWallet
ProcessPage ==
    /\ pc = "returned"
    /\ \E list \in {acc \o NormalizePage(cat, txs)} :
       \E ctl \in {AfterCall(txs, err, list)} :
           /\ fetched' = [fetched EXCEPT ![cat] = @ + Len(list) - Len(acc)]
           /\ pc' = ctl.pc
           /\ cat' = ctl.cat
           /\ page' = ctl.page
           /\ acc' = ctl.acc
           /\ normalTxs' = ctl.normalTxs
           /\ internalTxs' = ctl.internalTxs
           /\ tokenTxs' = ctl.tokenTxs
           /\ nftTxs' = ctl.nftTxs
           /\ allTransactions' = ctl.allTransactions
           /\ ret' = ctl.ret
           /\ slept' = ctl.slept
    /\ txs' = NoPage
    /\ err' = NoErr
    /\ request' = NoRequest
    /\ lastOutcome' = NoOutcome
    /\ UNCHANGED <<attempt, lastErr, sent>>
    /\ catErr' = [catErr EXCEPT ![cat] = @ \/ err.kind # "none"]
    /\ UNCHANGED <<address, asked, exported, exportOk, handed>>
    /\ UNCHANGED listVars

\* the call of csvExporter.Export and the return of TrackWallet
Export ==
    /\ pc = "export"
    /\ \E ok \in BOOLEAN :
          /\ exportOk' = ok
          /\ ret' = IF ok THEN "nil" ELSE "failed to export to CSV"
    /\ exported' = TRUE
    /\ handed' = allTransactions
    /\ pc' = "done"
    /\ UNCHANGED <<address, cat, page, attempt, lastErr, txs, err, acc,
                   normalTxs, internalTxs, tokenTxs, nftTxs, allTransactions,
                   request, sent, lastOutcome, catErr, fetched, asked, slept>>
    /\ UNCHANGED listVars

Next == Start \/ HttpAttempt \/ ProcessPage \/ Export

Spec == Init /\ [][Next]_vars

\* one iteration of the loop of makeRequest against the service that may
\* answer with full pages throughout
HttpAttemptLive ==
    /\ pc = "fetch"
    /\ \E o \in LiveOutcomes : Attempt(o)

NextLive == Start \/ HttpAttemptLive \/ ProcessPage \/ Export

\* one HTTP GET against the service that answers with full pages that
\* carry records
HttpAttemptFullPages ==
    /\ pc = "fetch"
    /\ \E o \in FullPageOutcomes : Attempt(o)

NextFullPages == Start \/ HttpAttemptFullPages \/ ProcessPage \/ Export

SpecFullPages == Init /\ [][NextFullPages]_vars

\* every HTTP GET returns, every pause ends and Export returns
SpecLive ==
    /\ Init
    /\ [][NextLive]_vars
    /\ WF_vars(Start)
    /\ WF_vars(HttpAttemptLive)
    /\ WF_vars(ProcessPage)
    /\ WF_vars(Export)

\* DeduplicateTransactions applied to the list
ApplyDeduplicate ==
    /\ pc = "lists"
    /\ op = "none"
    /\ output' = DeduplicateTransactions(input)
    /\ op' = "dedup"
    /\ UNCHANGED input
    /\ UNCHANGED runVars

\* SortTransactionsByTime applied to the list
ApplySort ==
    /\ pc = "lists"
    /\ op = "none"
    /\ output' = SortTransactionsByTime(input)
    /\ op' = "sort"
    /\ UNCHANGED input
    /\ UNCHANGED runVars

NextLists == ApplyDeduplicate \/ ApplySort

SpecLists == InitLists /\ [][NextLists]_vars

\* the normalizer of the record's category applied to the record
ApplyProcess ==
    /\ pc = "records"
    /\ op = "none"
    /\ output' = ProcessTransaction(input.cat, input.raw)
    /\ op' = "process"
    /\ UNCHANGED input
    /\ UNCHANGED runVars

NextRecords == ApplyProcess

SpecRecords == InitRecords /\ [][NextRecords]_vars

\* ValidateEthereumAddress applied to the string
ApplyValidate ==
    /\ pc = "validate"
    /\ op = "none"
    /\ output' = ValidateEthereumAddress(input)
    /\ op' = "validate"
    /\ UNCHANGED input
    /\ UNCHANGED runVars

NextValidate == ApplyValidate

SpecValidate == InitValidate /\ [][NextValidate]_vars


(***************************************************************************)
(* Properties                                                              *)
(***************************************************************************)
SameKey(a, b) == a.hash = b.hash /\ a.transactionType = b.transactionType

HasType(list, ty) == \E i \in 1..Len(list) : list[i].transactionType = ty

TypeOf(c) ==
    CASE c = Normal -> ETHTransfer [] c = Internal -> InternalTx
      [] c = Token -> ERC20Transfer [] c = NFT -> ERC721Transfer

Covers(list, part) ==
    \A i \in 1..Len(part) : \E j \in 1..Len(list) : SameKey(list[j], part[i])

NonIncreasing(list) ==
    \A i \in 1..(Len(list) - 1) : list[i].dateTime >= list[i + 1].dateTime

\* the entries of list at the positions in I, in the order of list
RECURSIVE Pick(_, _, _)
Pick(list, I, i) ==
    IF i > Len(list) THEN <<>>
    ELSE (IF i \in I THEN <<list[i]>> ELSE <<>>) \o Pick(list, I, i + 1)

\* positions whose (hash, category) pair does not occur earlier in list
FirstOccurrences(list) ==
    {i \in 1..Len(list) : \A j \in 1..(i - 1) : ~SameKey(list[j], list[i])}

\* the characters 0-9, a-f, A-F
HexChars ==
    {"0", "1", "2", "3", "4", "5", "6", "7", "8", "9",
     "a", "b", "c", "d", "e", "f", "A", "B", "C", "D", "E", "F"}

\* 42 characters: "0x" or "0X", then 40 characters among 0-9, a-f, A-F
WellFormedAddress(s) ==
    /\ Len(s) = 42
    /\ s[1] = "0"
    /\ s[2] \in {"x", "X"}
    /\ \A i \in 3..42 : s[i] \in HexChars

\* an optional sign followed by one or more decimal digits
IsInteger(s) ==
    /\ s # <<>>
    /\ LET body == IF s[1] \in {"+", "-"} THEN Tail(s) ELSE s
       IN  body # <<>> /\ \A i \in 1..Len(body) : IsDigit(body[i])

IsNonNegativeInteger(s) == IsInteger(s) /\ s[1] # "-"

\* the exponent the token normalizer is to use for a tokenDecimal field
ClaimedExponent(s) ==
    IF IsNonNegativeInteger(s) /\ FitsInt64(s)
    THEN DigitsVal(IF s[1] = "+" THEN Tail(s) ELSE s)
    ELSE 18

\* the characters of str after its decimal point, none without a point
FractionOf(str) ==
    IF \E i \in 1..Len(str) : str[i] = "."
    THEN SubSeq(str, 1 + CHOOSE i \in 1..Len(str) : str[i] = ".", Len(str))
    ELSE <<>>

\* str with its decimal point removed
WithoutPoint(str) == SelectSeq(str, LAMBDA c : c # ".")

\* str is a decimal with d fractional digits whose value times 10^d is the
\* natural number amount
ReadsBackTo(str, d, amount) ==
    /\ \A i \in 1..Len(str) : IsDigit(str[i]) \/ str[i] = "."
    /\ Len(FractionOf(str)) = d
    /\ Len(WithoutPoint(str)) >= Len(str) - 1
    /\ NatFromDigits(WithoutPoint(str)) = amount

\* the transactions of the records of raws that category c normalizes, in
\* the order of raws
NormalizedOf(c, raws) ==
    LET good == Pick(raws,
                     {i \in 1..Len(raws) :
                         ProcessTransaction(c, raws[i]).err = "none"}, 1)
    IN  [i \in 1..Len(good) |-> ProcessTransaction(c, good[i]).tx]

\* TrackWallet returned success after a successful export
Completed == ret = "nil" /\ exported /\ exportOk

\* TrackWallet returned an error
Aborted ==
    ret \in {"invalid Ethereum address",
             "failed to fetch normal transactions",
             "failed to fetch internal transactions",
             "failed to export to CSV"}

NoResultsEnvelope ==
    /\ lastOutcome.kind = "ok"
    /\ lastOutcome.status # "1"
    /\ lastOutcome.message = "No transactions found"

\* C1: in every category, a decoded envelope whose status is not "1" and
\* whose message is "No transactions found" makes the category operation
\* return an empty page and no error.
C1_NoResultsIsEmptyPage ==
    (pc = "returned" /\ NoResultsEnvelope)
        => (err = NoErr /\ PageLen(txs) = 0)

\* C2: when the fetch of the native or of the internal category returns an
\* error, TrackWallet returns an error, no request of a later category has
\* been issued and Export is not called.
C2_FatalFetchAborts ==
    \A c \in {Normal, Internal} :
        catErr[c] =>
            /\ pc = "done"
            /\ ret \in {"failed to fetch normal transactions",
                        "failed to fetch internal transactions"}
            /\ ~exported
            /\ \A d \in asked : d <= c

C2_Witness ==
    /\ catErr[Internal]
    /\ fetched[Normal] > 0
    /\ pc = "done"

\* C3 as stated: when the fetch of the token or of the NFT category returns
\* an error, the category contributes no record, the remaining steps run,
\* Export is called with the records of the other categories and TrackWallet
\* returns success.
C3_DegradedRunSucceeds ==
    \A c \in {Token, NFT} :
        (catErr[c] /\ pc = "done") =>
            /\ exported
            /\ ~HasType(handed, TypeOf(c))
            /\ Covers(handed, normalTxs \o internalTxs)
            /\ ret = "nil"

\* C3 as amended: when the fetch of the token or of the NFT category returns
\* an error, the category contributes no record (also none of the pages
\* fetched before the failing one), the remaining steps run, Export is
\* called with the records of the other categories, and TrackWallet returns
\* success if Export returns no error and the error of Export otherwise.
C3_DegradedRunExports ==
    \A c \in {Token, NFT} :
        catErr[c] =>
            /\ (IF c = Token THEN tokenTxs ELSE nftTxs) = <<>>
            /\ pc \in {"fetch", "returned", "export", "done"}
            /\ pc = "export" => ~HasType(allTransactions, TypeOf(c))
            /\ pc = "done" =>
                  /\ NFT \in asked
                  /\ exported
                  /\ ~HasType(handed, TypeOf(c))
                  /\ Covers(handed, normalTxs \o internalTxs)
                  /\ (c = Token /\ ~catErr[NFT]) => Covers(handed, nftTxs)
                  /\ (c = NFT /\ ~catErr[Token]) => Covers(handed, tokenTxs)
                  /\ ret = IF exportOk THEN "nil" ELSE "failed to export to CSV"

C3_Witness ==
    /\ catErr[Token]
    /\ fetched[Token] > 0
    /\ pc = "done"
    /\ ret = "nil"
    /\ handed # <<>>

\* C4: makeRequest issues at most 3 HTTP GETs for one page request; a failed
\* GET is followed by another one while fewer than 3 were made, and after
\* the third failed GET the call returns an error that wraps the failure of
\* that third GET and states the attempt count 3.
C4_RetryBudget ==
    /\ [](pc = "fetch" =>
            /\ sent < 3
            /\ sent > 0 => lastOutcome.kind \in FailureKinds)
    /\ [][(pc = "fetch" /\ lastOutcome'.kind \in FailureKinds) =>
            IF sent < 2
            THEN /\ pc' = "fetch"
                 /\ sent' = sent + 1
                 /\ <<cat', page'>> = <<cat, page>>
            ELSE /\ pc' = "returned"
                 /\ err' = [kind |-> "exhausted", attempts |-> 3,
                            wraps |-> lastOutcome'.kind, msg |-> "none"]]_vars
    /\ [][(pc = "fetch" /\ pc' = "returned" /\ err'.kind = "exhausted") =>
            (sent = 2 /\ lastOutcome'.kind \in FailureKinds)]_vars

C4_Witness ==
    /\ pc = "returned"
    /\ err.kind = "exhausted"
    /\ err.attempts = 3
    /\ err.wraps = "status"

\* C5: once an HTTP GET returns status 200 with a decodable envelope, the
\* call returns to its caller after exactly that GET, whatever the
\* envelope says, and no further GET is made for that page request.
C5_EnvelopeNotRetried ==
    [][/\ (pc = "fetch" /\ lastOutcome'.kind = "ok") =>
              (pc' = "returned" /\ err'.kind # "exhausted")
       /\ (pc = "fetch" /\ pc' = "fetch") =>
              lastOutcome'.kind \in FailureKinds
       /\ (pc = "returned" /\ pc' = "fetch") =>
              (<<cat', page'>> # <<cat, page>> /\ sent' = 0)]_vars

C5_Witness ==
    /\ pc = "returned"
    /\ lastOutcome.kind = "ok"
    /\ lastOutcome.message = "NOTOK"
    /\ err = RateLimitErr

\* C6: in each category the pages are requested in the order 1, 2, 3, ...
\* with page size 10000; page n+1 is requested only if page n was returned
\* without error with exactly 10000 records, and the first page with fewer
\* records is the last page requested for the category.
C6_Pagination ==
    [][/\ (pc' = "fetch" /\ (pc = "start" \/ cat' # cat)) => page' = 1
       /\ (pc = "fetch" /\ pc' \in {"fetch", "returned"}) =>
              /\ <<cat', page'>> = <<cat, page>>
              /\ request' = [cat |-> cat, page |-> page, offset |-> 10000]
       /\ (pc = "returned" /\ pc' = "fetch" /\ cat' = cat) =>
              /\ page' = page + 1
              /\ err = NoErr
              /\ PageLen(txs) = 10000
       /\ (pc = "returned" /\ (err # NoErr \/ PageLen(txs) < 10000)) =>
              ~(pc' = "fetch" /\ cat' = cat)
       /\ (pc' = "fetch" /\ cat' # cat) => cat' = cat + 1]_vars

C6_Witness ==
    /\ pc = "returned"
    /\ cat = Token
    /\ page = 2
    /\ err = NoErr
    /\ PageLen(txs) = 1

\* C7: DeduplicateTransactions returns exactly one entry per distinct
\* (hash, category) pair, namely the first occurrence of the pair in the
\* input, and the retained entries keep their input order.
C7_DedupKeepsFirst ==
    op = "dedup" => output = Pick(input, FirstOccurrences(input), 1)

C7_Witness ==
    /\ op = "dedup"
    /\ Len(input) = 3
    /\ Len(output) = 2
    /\ SameKey(input[1], input[3])
    /\ input[1].dateTime # input[3].dateTime
    /\ input[1].hash = input[2].hash

\* C8: the list handed to Export holds no two entries with the same
\* (hash, category) pair.
C8_ExportedKeysUnique ==
    exported =>
        \A i \in 1..Len(handed) : \A j \in 1..Len(handed) :
            SameKey(handed[i], handed[j]) => i = j

C8_Witness ==
    /\ exported
    /\ catErr[Token]
    /\ Len(handed) = 1
    /\ Len(normalTxs \o internalTxs \o tokenTxs \o nftTxs) = 2

\* C9: after SortTransactionsByTime the list is non-increasing in
\* timestamp.
C9_SortedDescending ==
    op = "sort" => NonIncreasing(output)

C9_Witness ==
    /\ op = "sort"
    /\ Len(input) = 3
    /\ input[1].dateTime < input[2].dateTime
    /\ input[2].dateTime < input[3].dateTime
    /\ output # input

\* C10: SortTransactionsByTime leaves a list that is already non-increasing
\* in timestamp unchanged at every position, and sorting a sorted result
\* again changes nothing.
C10_SortIdempotent ==
    op = "sort" =>
        /\ NonIncreasing(input) => output = input
        /\ SortTransactionsByTime(output) = output

C10_Witness ==
    /\ op = "sort"
    /\ Len(input) = 3
    /\ NonIncreasing(input)
    /\ input[1].dateTime = input[2].dateTime
    /\ input[1] # input[2]
    /\ input[2].dateTime > input[3].dateTime

\* C11: in every category, a page returned without error adds exactly its
\* records that normalize, in page order, to the records of the category;
\* the records that fail to normalize are left out, the next page is
\* requested as the pagination rule says, and the fetch of the category
\* returns no error.
C11_MalformedSkipped ==
    [][(pc = "returned" /\ err = NoErr) =>
          /\ (PageLen(txs) = 10000 /\ page < 100) =>
                (pc' = "fetch" /\ cat' = cat /\ page' = page + 1)
          /\ (pc' = "fetch" /\ cat' = cat) =>
                acc' = acc \o NormalizedOf(cat, txs.raws)
          /\ ~(pc' = "fetch" /\ cat' = cat) =>
                /\ cat = Normal =>
                      normalTxs' = acc \o NormalizedOf(cat, txs.raws)
                /\ cat = Internal =>
                      internalTxs' = acc \o NormalizedOf(cat, txs.raws)
                /\ cat = Token =>
                      tokenTxs' = acc \o NormalizedOf(cat, txs.raws)
                /\ cat = NFT =>
                      nftTxs' = acc \o NormalizedOf(cat, txs.raws)
          /\ ~catErr'[cat]
          /\ ret' \notin {"failed to fetch normal transactions",
                          "failed to fetch internal transactions"}]_vars

C11_Witness ==
    /\ pc = "fetch"
    /\ cat = Token
    /\ page = 2
    /\ Len(acc) = 2
    /\ acc[1].dateTime = 2
    /\ acc[2].dateTime = 1

\* C12: when the address given to TrackWallet is not a well-formed address,
\* TrackWallet returns the validation error, no HTTP GET is issued and Export
\* is not called.
C12_InvalidAddressStopsRun ==
    (pc # "start" /\ ~WellFormedAddress(address)) =>
        /\ pc = "done"
        /\ ret = "invalid Ethereum address"
        /\ asked = {}
        /\ sent = 0
        /\ request = NoRequest
        /\ ~exported

C12_Witness ==
    /\ pc = "done"
    /\ ret = "invalid Ethereum address"
    /\ Len(address) = 42
    /\ HasPrefix(address, <<"0", "x">>)
    /\ asked = {}

\* C13: ValidateEthereumAddress returns true exactly for the strings of 42
\* characters that begin with "0x" or "0X" and continue with 40 characters
\* among 0-9, a-f, A-F, and false for every other string.
C13_ValidShape ==
    op = "validate" => output = WellFormedAddress(input)

C13_Witness ==
    /\ op = "validate"
    /\ output = TRUE
    /\ input[2] = "X"
    /\ input[42] = "F"

\* C14: a native record that normalizes gets the status Failed when its
\* error flag is "1"; otherwise Success when its receipt status is "1",
\* Failed when it is "0", and Unknown for every other receipt status, the
\* empty one included.
C14_NativeStatus ==
    (op = "process" /\ input.cat = Normal /\ output.err = "none") =>
        /\ input.raw.isError = <<"1">> => output.tx.status = "Failed"
        /\ (input.raw.isError # <<"1">>
              /\ input.raw.txReceiptStatus = <<"1">>) =>
                 output.tx.status = "Success"
        /\ (input.raw.isError # <<"1">>
              /\ input.raw.txReceiptStatus = <<"0">>) =>
                 output.tx.status = "Failed"
        /\ (input.raw.isError # <<"1">>
              /\ input.raw.txReceiptStatus \notin {<<"0">>, <<"1">>}) =>
                 output.tx.status = "Unknown"

C14_Witness ==
    /\ op = "process"
    /\ input.cat = Normal
    /\ input.raw.isError = <<"1">>
    /\ input.raw.txReceiptStatus = <<"1">>
    /\ output.err = "none"
    /\ output.tx.status = "Failed"

\* C15: every transaction a normalizer produces has one of the statuses
\* Success, Failed and Unknown.
C15_StatusEnumerated ==
    (op = "process" /\ output.err = "none") =>
        output.tx.status \in {"Success", "Failed", "Unknown"}

\* C16: the native, internal and token normalizers return an error and no
\* transaction when the timestamp is not an integer or the value is not a
\* non-negative decimal integer (empty, not a number, or with a minus sign),
\* and return a transaction and no error for every other record.
C16_ParseFailures ==
    (op = "process" /\ input.cat \in {Normal, Internal, Token}) =>
        IF /\ IsInteger(input.raw.timeStamp)
           /\ FitsInt64(input.raw.timeStamp)
           /\ IsNonNegativeInteger(input.raw.value)
        THEN output.err = "none" /\ output.tx # NilTx
        ELSE output.err # "none" /\ output.tx = NilTx

\* C17: the token normalizer formats the amount with the exponent the
\* record declares when that field is a non-negative integer, and with the
\* exponent 18 in every other case.
C17_TokenExponent ==
    (op = "process" /\ input.cat = Token /\ output.err = "none") =>
        output.tx.valueFormatted =
            formatTokenValue(output.tx.value,
                             ClaimedExponent(input.raw.tokenDecimal))

\* C18: a non-negative amount is formatted as "0" when it is zero, and
\* otherwise as a decimal with exactly d fractional digits that reads back
\* to the amount when multiplied by 10^d; d is 18 for the native and the
\* internal normalizer and the declared exponent for the token normalizer.
C18_FormatRoundTrip ==
    (/\ op = "process"
     /\ input.cat \in {Normal, Internal, Token}
     /\ output.err = "none"
     /\ ~output.tx.value.neg
     /\ input.cat = Token => IsNonNegativeInteger(input.raw.tokenDecimal)
     /\ input.cat = Token => FitsInt64(input.raw.tokenDecimal)) =>
        IF output.tx.value.abs = <<>>
        THEN output.tx.valueFormatted = <<"0">>
        ELSE ReadsBackTo(output.tx.valueFormatted,
                         IF input.cat = Token
                         THEN ClaimedExponent(input.raw.tokenDecimal)
                         ELSE 18,
                         output.tx.value.abs)

\* C19: in every category, a decoded envelope whose status is not "1" makes
\* the category operation return no records and, when the message is
\* "NOTOK", the rate-limit error that advises an API key, and when the
\* message is neither "NOTOK" nor "No transactions found", an error that
\* carries the message unchanged.
C19_ServiceErrors ==
    (pc = "returned" /\ lastOutcome.kind = "ok" /\ lastOutcome.status # "1") =>
        /\ lastOutcome.message = "NOTOK" =>
              /\ err.kind = "ratelimit"
              /\ err.msg = "use an API key"
              /\ PageLen(txs) = 0
        /\ lastOutcome.message \notin {"NOTOK", "No transactions found"} =>
              /\ err.kind = "service"
              /\ err.msg = lastOutcome.message
              /\ PageLen(txs) = 0

C19_Witness ==
    /\ pc = "returned"
    /\ cat = NFT
    /\ lastOutcome.kind = "ok"
    /\ lastOutcome.status = "0"
    /\ lastOutcome.decodes
    /\ lastOutcome.message = "NOTOK"
    /\ err.kind = "ratelimit"

\* C20: when every HTTP GET returns and every pause ends, every run of
\* TrackWallet ends, either completed with an export or aborted with an
\* error and never both, whatever the service answers; no run issues
\* requests forever.
C20_RunEnds ==
    <>[](pc = "done" /\ Completed # Aborted)

C20_Witness ==
    /\ pc = "done"
    /\ Completed
    /\ cat = NFT
    /\ page = MaxPages
    /\ catErr[Token]

\* the entries of list with the timestamp t, in the order of list
AtTime(list, t) == SelectSeq(list, LAMBDA tx : tx.dateTime = t)

\* the timestamps that occur in list
TimesOf(list) == {list[i].dateTime : i \in 1..Len(list)}

\* C28: SortTransactionsByTime only reorders: its output is a permutation
\* of its input, and the entries with equal timestamps keep the relative
\* order they have in the input. Both hold exactly when, for every
\* timestamp, the entries with that timestamp are the same sequence in the
\* input and in the output.
C28_SortStable ==
    op = "sort" =>
        /\ Len(output) = Len(input)
        /\ \A t \in TimesOf(input) \cup TimesOf(output) :
              AtTime(output, t) = AtTime(input, t)

C28_Witness ==
    /\ op = "sort"
    /\ Len(input) = 3
    /\ input[1].dateTime < input[2].dateTime
    /\ input[2].dateTime = input[3].dateTime
    /\ input[2] # input[3]
    /\ output = <<input[2], input[3], input[1]>>

\* the fetchAll loop of the running category is left on the return txs, err
LoopFinished ==
    \/ err # NoErr
    \/ Len(txs.raws) + txs.pad < DefaultPageSize
    \/ page = MaxPages

\* C21: requests are issued category by category in the order native,
\* internal, token, NFT: a request is for the running category, with every
\* earlier category asked before and no later one; the running category
\* changes only to the next one and only when its fetch loop has finished
\* (an error, the last page or the page cap); the merged list is
\* deduplicated and sorted, and Export called, only after the NFT loop has
\* finished.
C21_CategoryOrder ==
    [][/\ asked' # asked => (asked = 1..(cat - 1) /\ asked' = 1..cat)
       /\ (request' # request /\ request' # NoRequest) =>
             (request'.cat = cat /\ asked' = 1..cat)
       /\ cat' # cat =>
             /\ pc = "returned" /\ LoopFinished
             /\ cat' = cat + 1 /\ pc' = "fetch" /\ page' = 1
       /\ (pc' = "export" /\ pc # "export") =>
             /\ pc = "returned" /\ LoopFinished
             /\ cat = NFT /\ asked = Categories
       /\ allTransactions' # allTransactions =>
             (pc = "returned" /\ cat = NFT /\ pc' = "export")
       /\ (exported' /\ ~exported) => pc = "export"]_vars

C21_Witness ==
    /\ pc = "done"
    /\ exported
    /\ asked = Categories
    /\ fetched[Normal] = 1
    /\ fetched[NFT] = 1

\* the list TrackWallet holds for category c
ListOf(c) ==
    CASE c = Normal -> normalTxs
      [] c = Internal -> internalTxs
      [] c = Token -> tokenTxs
      [] c = NFT -> nftTxs

\* C22: no category is asked for a page beyond page 100; when page 100 of
\* a category is exactly full as well, its fetch stops there and returns
\* the records gathered from the pages, this one included, without an
\* error, and the run goes on with the next category or the export.
C22_PageCap ==
    [][/\ page' <= MaxPages
       /\ request'.page <= MaxPages
       /\ (/\ pc = "returned"
           /\ err = NoErr
           /\ Len(txs.raws) + txs.pad = DefaultPageSize
           /\ page = MaxPages) =>
              /\ ~(pc' = "fetch" /\ cat' = cat)
              /\ \A c \in {cat} :
                    ListOf(c)' = acc \o NormalizedOf(c, txs.raws)
              /\ ~catErr'[cat]
              /\ ret' = "running"
              /\ IF cat = NFT THEN pc' = "export"
                 ELSE pc' = "fetch" /\ cat' = cat + 1 /\ page' = 1]_vars

C22_Witness ==
    /\ pc = "fetch"
    /\ cat = Internal
    /\ page = 1
    /\ slept = PageDelay
    /\ Len(normalTxs) = 2
    /\ fetched[Normal] = 2

\* C23: an HTTP round trip that returns an envelope with the status "1"
\* whose result cannot be decoded into records is followed by another
\* attempt as long as fewer than MaxRetries attempts were made; the call
\* does not return after it.
C23_ResultDecodeRetried ==
    [][(/\ pc = "fetch"
        /\ lastOutcome'.kind = "ok"
        /\ lastOutcome'.status = "1"
        /\ ~lastOutcome'.decodes
        /\ attempt + 1 < MaxRetries) =>
           (pc' = "fetch" /\ attempt' = attempt + 1)]_vars

\* C26: TrackWallet pauses between every two consecutive categories: the
\* first request of the internal, the token and the NFT category is
\* issued after a pause.
C26_PauseBetweenCategories ==
    [][(pc' = "fetch" /\ cat' # cat) => slept' >= BatchDelay]_vars

\* C27: whether the next page of a category is requested depends on the
\* number of raw records of the page alone: after a page of exactly 10000
\* raw records the next page is requested (up to the page cap) however
\* many of them normalize, and a page of fewer raw records ends the
\* category even when all of them normalize.
C27_RawCountDecides ==
    [][(pc = "returned" /\ err = NoErr) =>
          /\ (Len(txs.raws) + txs.pad = DefaultPageSize /\ page < MaxPages) =>
                (pc' = "fetch" /\ cat' = cat /\ page' = page + 1)
          /\ Len(txs.raws) + txs.pad < DefaultPageSize =>
                ~(pc' = "fetch" /\ cat' = cat)]_vars

C27_Witness ==
    /\ pc = "returned"
    /\ err = NoErr
    /\ page = 2
    /\ acc = <<>>
    /\ txs.pad = 0
    /\ Len(txs.raws) = 2
    /\ Len(NormalizedOf(cat, txs.raws)) = 2

\* the (hash, type) keys of the transactions of list
KeysOf(list) ==
    {<<list[i].hash, list[i].transactionType>> : i \in 1..Len(list)}

\* C29: when Export is called, the keys (hash, type) of the list it is
\* handed are exactly the keys of the records that normalized in the pages
\* fetched for the categories whose fetch did not fail: a category that
\* failed contributes nothing, every other one all it normalized.
C29_HandedKeys ==
    exported =>
        /\ KeysOf(handed) =
              UNION {KeysOf(ListOf(c)) : c \in Categories}
        /\ \A c \in Categories :
              IF catErr[c] THEN ListOf(c) = <<>>
              ELSE Len(ListOf(c)) = fetched[c]

C29_Witness ==
    /\ exported
    /\ catErr[Token]
    /\ fetched[Token] = 1
    /\ fetched[NFT] = 1
    /\ KeysOf(handed) = KeysOf(nftTxs)
    /\ handed # <<>>

\* C24: a native record that normalizes is a Contract Interaction exactly
\* when its receiver is not empty and its call data is neither empty nor
\* "0x", and an ETH Transfer otherwise; no internal, token or NFT record
\* gets either of these two types.
C24_ContractCall ==
    (op = "process" /\ output.err = "none") =>
        IF input.cat = Normal
        THEN output.tx.transactionType =
                IF /\ input.raw.to # <<>>
                   /\ input.raw.input \notin {<<>>, <<"0", "x">>}
                THEN ContractCall ELSE ETHTransfer
        ELSE output.tx.transactionType \notin {ContractCall, ETHTransfer}

C24_Witness ==
    /\ op = "process"
    /\ input.cat = Normal
    /\ input.raw.to = <<>>
    /\ input.raw.input = <<"0", "x", "a">>
    /\ output.err = "none"
    /\ output.tx.transactionType = ETHTransfer

\* C25: an internal record that normalizes has the gas fee "0", and the
\* status Failed when its error flag is "1" and Success for every other
\* error flag; it never has the status Unknown.
C25_InternalRecord ==
    (op = "process" /\ input.cat = Internal /\ output.err = "none") =>
        /\ output.tx.gasFeeETH = <<"0">>
        /\ output.tx.status =
              IF input.raw.isError = <<"1">> THEN "Failed" ELSE "Success"

C25_Witness ==
    /\ op = "process"
    /\ input.cat = Internal
    /\ input.raw.isError = <<"1">>
    /\ input.raw.gasUsed = <<"2", "1", "0", "0", "0">>
    /\ input.raw.gasPrice = <<"1">>
    /\ output.err = "none"
    /\ output.tx.status = "Failed"
    /\ output.tx.gasFeeETH = <<"0">>

\* the decimal str without its sign
Unsigned(str) ==
    IF str # <<>> /\ str[1] \in {"+", "-"} THEN Tail(str) ELSE str

\* the product of two integer literals, as a big.Int
ProductOf(a, b) ==
    BigInt((a[1] = "-") # (b[1] = "-"),
           NatMul(NatFromDigits(Unsigned(a)),
                  NatFromDigits(Unsigned(b))))

\* C30: in the native, token and NFT normalizers a gasUsed or gasPrice
\* field that is not an integer causes no error: the record is normalized
\* with the gas fee "0"; when both are integers the gas fee is their
\* product scaled at the exponent 18, "0" for the product zero.
C30_GasFee ==
    (op = "process" /\ input.cat \in {Normal, Token, NFT}) =>
        /\ output.err # "none" =>
              \/ ~IsInteger(input.raw.timeStamp)
              \/ ~FitsInt64(input.raw.timeStamp)
              \/ input.cat # NFT /\ ~IsInteger(input.raw.value)
        /\ output.err = "none" =>
              IF IsInteger(input.raw.gasUsed) /\ IsInteger(input.raw.gasPrice)
              THEN LET product ==
                           ProductOf(input.raw.gasUsed, input.raw.gasPrice)
                   IN  IF product.abs = <<>>
                       THEN output.tx.gasFeeETH = <<"0">>
                       ELSE /\ (output.tx.gasFeeETH[1] = "-") = product.neg
                            /\ ReadsBackTo(Unsigned(output.tx.gasFeeETH), 18,
                                           product.abs)
              ELSE output.tx.gasFeeETH = <<"0">>

=============================================================================
